---- MODULE Spec2Model ----
(***************************************************************************)
(* freedom-audit (tmrw audit): the analysis engine analyzeFiles of         *)
(* src/src/analyzer.ts, lines 157-397, as a state machine.                 *)
(*                                                                         *)
(* Numbers.  The code computes in IEEE doubles; the model computes the     *)
(* same expressions exactly.  Catalog scores (0..1) and the high-risk      *)
(* counter are kept in tenths (0.1 = 1, 0.2 = 2, one occurrence = 10);     *)
(* quotients are exact fractions <<numerator, denominator>>.               *)
(***************************************************************************)
EXTENDS Integers, Sequences, FiniteSets, TLC

\* ------------------------------------------------------------- bounds
\* Longest file list handed to analyzeFiles.
MaxFiles == 2
\* Number of analyzeFiles calls made one after the other.
MaxCalls == 2

\* ------------------------------------------------------ string helpers
\* String.prototype.endsWith
EndsWith(s, suffix) ==
    /\ Len(s) >= Len(suffix)
    /\ SubSeq(s, Len(s) - Len(suffix) + 1, Len(s)) = suffix

\* String.prototype.includes
Includes(s, sub) ==
    \E k \in 1..(Len(s) - Len(sub) + 1) : SubSeq(s, k, k + Len(sub) - 1) = sub

\* Set.prototype.add on a Set kept in insertion order (Array.from order).
SetAdd(set, x) ==
    IF \E k \in DOMAIN set : set[k] = x THEN set ELSE Append(set, x)

\* ------------------------------------------------------ exact fractions
Abs(n) == IF n < 0 THEN -n ELSE n

RECURSIVE Gcd(_, _)
Gcd(a, b) == IF b = 0 THEN a ELSE Gcd(b, a % b)

\* The fraction n/d (d > 0) in lowest terms.
Frac(n, d) ==
    LET g == Gcd(Abs(n), d)
    IN  IF n = 0 THEN <<0, 1>> ELSE <<n \div g, d \div g>>

FracLeq(p, q) == p[1] * q[2] <= q[1] * p[2]

Min(a, b) == IF a <= b THEN a ELSE b

\* ------------------------------------------------------ vendor catalog
\* One VendorService descriptor; scores in tenths.
VendorService(name, lockIn, risk) ==
    [name |-> name, lockInScore |-> lockIn, deplatformRisk |-> risk]

\* Score levels (tenths) the catalogs of the model draw from.
LockInLevels == {2, 8}
RiskLevels == {2, 5}

\* The catalogs of the model: data/vendor-services.json is a Record of
\* buckets, one per provider plus `portable`, each a list of descriptors.
\* aws_lambda_function and docker carry the scores the tests mock for them
\* (lockInScore 0.8 / deplatformRisk 0.2 and 0.1 / 0.0); aws_s3_bucket ranges
\* over the levels.
Catalogs ==
    { << [bucket |-> "aws",
          services |-> << VendorService("aws_lambda_function", 8, 2),
                          VendorService("aws_s3_bucket", l, r) >>],
         [bucket |-> "portable",
          services |-> << VendorService("docker", 1, 0),
                          VendorService("helm", 1, 0) >>] >> :
      l \in LockInLevels, r \in RiskLevels }

RECURSIVE Flat(_)
\* Object.values(vendorServices).flat()
Flat(buckets) ==
    IF buckets = <<>> THEN <<>>
    ELSE Head(buckets).services \o Flat(Tail(buckets))

\* Array.prototype.find(s => s.name === name): index of the first match, 0 if none.
FindIndex(list, name) ==
    IF \E k \in DOMAIN list : list[k].name = name
    THEN CHOOSE k \in DOMAIN list :
            /\ list[k].name = name
            /\ \A j \in 1..(k - 1) : list[j].name # name
    ELSE 0

\* vendorServices.portable.some(s => s.name === name)
IsPortable(cat, name) ==
    \E b \in DOMAIN cat :
        /\ cat[b].bucket = "portable"
        /\ \E k \in DOMAIN cat[b].services : cat[b].services[k].name = name

\* service.deplatformRisk > 0.3
HighRiskThreshold == 3

\* ------------------------------------------------------- file contents
\* What reading and parsing one file gives.  `readable`: fs.readFile /
\* fs.readJson finds and reads the file.  `wellFormed`: the parser
\* (hcl.parse, yaml.load, JSON.parse) accepts the text.  `isObject`: the
\* parsed value is an object (not null/undefined).  The other fields are
\* the top-level keys the code probes; Absent marks a missing key.
Absent == "<absent>"
NonString == "<non-string>"

Doc == [ readable |-> TRUE, wellFormed |-> TRUE, isObject |-> TRUE,
         hasBody |-> FALSE, body |-> <<>>,
         providerName |-> Absent,
         functions |-> [shape |-> "absent", n |-> 0],
         services |-> [present |-> FALSE, n |-> 0],
         apiVersion |-> Absent, kind |-> Absent,
         hasResources |-> FALSE, Resources |-> <<>>,
         deps |-> {} ]

\* Terraform blocks of parsed.body.
ProviderBlock(p) == [provider |-> p, resource |-> Absent]
ResourceBlock(t) == [provider |-> Absent, resource |-> t]
Hcl(blocks) == [Doc EXCEPT !.hasBody = TRUE, !.body = blocks]

\* Entries of a CloudFormation Resources object.
Resource(type) == [isNull |-> FALSE, Type |-> type]
NullResource == [isNull |-> TRUE, Type |-> Absent]
Template(entries) == [Doc EXCEPT !.hasResources = TRUE, !.Resources = entries]

Unreadable == [Doc EXCEPT !.readable = FALSE]
Malformed == [Doc EXCEPT !.wellFormed = FALSE]
NullDoc == [Doc EXCEPT !.isObject = FALSE]

\* The files under rootDir: relative path :> content.
FileSystem ==
       "main.tf" :> Hcl(<<ProviderBlock("aws"), ResourceBlock("aws_lambda_function")>>)
    @@ "storage.tf" :> Hcl(<<ResourceBlock("aws_s3_bucket")>>)
    @@ "gcp.tf" :> Hcl(<<ProviderBlock("google"), ResourceBlock("google_storage_bucket")>>)
    @@ "invalid.tf" :> Malformed
    @@ "locked.tf" :> Unreadable
    @@ "nobody.tf" :> Doc
    @@ "serverless.yml" :>
          [Doc EXCEPT !.providerName = "aws", !.functions = [shape |-> "map", n |-> 1]]
    @@ "functions.yaml" :>
          [Doc EXCEPT !.providerName = "azure", !.functions = [shape |-> "list", n |-> 2]]
    @@ "docker-compose.yml" :> [Doc EXCEPT !.services = [present |-> TRUE, n |-> 2]]
    @@ "docker-compose.dev.yml" :> [Doc EXCEPT !.services = [present |-> TRUE, n |-> 1]]
    @@ "docker-compose.fn.yml" :>
          [Doc EXCEPT !.providerName = "aws", !.functions = [shape |-> "list", n |-> 1],
                      !.services = [present |-> TRUE, n |-> 1]]
    @@ "Chart.yaml" :> [Doc EXCEPT !.apiVersion = "helm.sh/v1", !.kind = "Chart"]
    @@ "broken.yml" :> Malformed
    @@ "blank.yml" :> NullDoc
    @@ "template.json" :>
          Template(<<Resource("AWS::Lambda::Function"), Resource("AWS::S3::Bucket")>>)
    @@ "mixed.json" :>
          Template(<<Resource("AWS::S3::Bucket"), NullResource,
                     Resource("AWS::Lambda::Function")>>)
    @@ "package.json" :> [Doc EXCEPT !.deps = {"aws-sdk"}]
    @@ "bad.json" :> Malformed
    @@ "Dockerfile" :> Doc

FileNames == DOMAIN FileSystem

RECURSIVE SeqsUpTo(_, _)
\* Every sequence over S of length at most n.
SeqsUpTo(S, n) ==
    IF n = 0 THEN {<<>>}
    ELSE LET shorter == SeqsUpTo(S, n - 1)
         IN  shorter \cup {Append(q, x) : q \in shorter, x \in S}

\* ------------------------------------------------- more string helpers
\* Position of the first occurrence of sub in s, 0 if none (String.indexOf + 1).
IndexOf(s, sub) ==
    IF Includes(s, sub)
    THEN CHOOSE k \in 1..(Len(s) - Len(sub) + 1) :
            /\ SubSeq(s, k, k + Len(sub) - 1) = sub
            /\ \A j \in 1..(k - 1) : SubSeq(s, j, j + Len(sub) - 1) # sub
    ELSE 0

RECURSIVE Split(_, _)
\* String.prototype.split(sep)
Split(s, sep) ==
    LET k == IndexOf(s, sep)
    IN  IF k = 0 THEN <<s>>
        ELSE <<SubSeq(s, 1, k - 1)>> \o Split(SubSeq(s, k + Len(sep), Len(s)), sep)

RECURSIVE Join(_, _)
\* Array.prototype.join(sep)
Join(parts, sep) ==
    IF parts = <<>> THEN ""
    ELSE IF Len(parts) = 1 THEN parts[1]
    ELSE parts[1] \o sep \o Join(Tail(parts), sep)

UpperCase == "ABCDEFGHIJKLMNOPQRSTUVWXYZ"
LowerCase == "abcdefghijklmnopqrstuvwxyz"

\* The lower-case letter of every upper-case letter.
LowerOf ==
    [c \in {SubSeq(UpperCase, k, k) : k \in 1..Len(UpperCase)} |->
        LET k == IndexOf(UpperCase, c) IN SubSeq(LowerCase, k, k)]

RECURSIVE ToLowerCase(_)
\* String.prototype.toLowerCase
ToLowerCase(s) ==
    IF s = "" THEN ""
    ELSE LET c == SubSeq(s, 1, 1)
         IN  (IF c \in DOMAIN LowerOf THEN LowerOf[c] ELSE c)
             \o ToLowerCase(SubSeq(s, 2, Len(s)))

\* ---------------------------------------------------------- the state
VARIABLES
    vendorServices,   \* the catalog, loaded once (analyzer.ts:152)
    files,            \* the file list analyzeFiles is called with
    pc,               \* "idle", "loop" (in the for-of), "done" (resolved), "rejected"
    calls,            \* analyzeFiles calls started so far
    i,                \* files of the list the loop has visited
    acc,              \* the five running totals of one call (analyzer.ts:162-166)
    handled,          \* per visited file: the branch taken and how it ended
    results,          \* the ScanResults returned so far, one per finished call
    debug,            \* process.env.DEBUG, Absent when unset
    warnings,         \* what console.warn has printed
    parser,           \* one call of a format extractor of the parsing helpers
    scan,             \* one call of scanCodebase
    tasks             \* analyzeFiles calls in flight at the same time

vars == <<vendorServices, files, pc, calls, i, acc, handled, results,
          debug, warnings, parser, scan, tasks>>

\* What analyzeFiles does not touch.
aside == <<parser, scan, tasks>>

\* No extractor of the parsing helpers has been called.
ParserIdle == [pc |-> "idle"]

\* scanCodebase has not been called.
ScanIdle == [pc |-> "idle"]

\* No concurrent analyzeFiles calls.
TasksIdle == <<>>

\* vendorServicesFound = [], totalServices = 0, providers = new Set(),
\* openStandardsCount = 0, highRiskServices = 0
EmptyAccumulator ==
    [ vendorServicesFound |-> <<>>, totalServices |-> 0, providers |-> <<>>,
      openStandardsCount |-> 0, highRiskServices |-> 0 ]

\* A bug that would share the totals between calls (module-level variables).
SharedAccumulator == acc

\* The five `let` declarations at the top of analyzeFiles: what a call starts from.
NewAccumulator == EmptyAccumulator

\* A branch ends "ok" (ran to its end), "skipped" (inner catch, continue) or
\* "error" (an exception left the branch and reached the outer catch).
Ended(a, how) == [acc |-> a, outcome |-> how]

\* ------------------------------------------------ 1. Terraform (.tf)
\* The body of resources.forEach: one resource looked up in the catalog.
EvaluateResource(cat, a, res) ==
    LET list == Flat(cat)
        k == FindIndex(list, res)
    IN  IF k = 0 THEN a
        ELSE [a EXCEPT
                !.openStandardsCount =
                    IF IsPortable(cat, res) THEN @ + 1 ELSE @,
                !.highRiskServices =
                    IF list[k].deplatformRisk > HighRiskThreshold THEN @ + 10 ELSE @]

RECURSIVE EvaluateResources(_, _, _)
EvaluateResources(cat, a, resources) ==
    IF resources = <<>> THEN a
    ELSE EvaluateResources(cat, EvaluateResource(cat, a, Head(resources)),
                           Tail(resources))

RECURSIVE AddProviders(_, _)
\* providerBlocks.forEach(b => providers.add(b.provider))
AddProviders(set, blocks) ==
    IF blocks = <<>> THEN set
    ELSE AddProviders(SetAdd(set, Head(blocks).provider), Tail(blocks))

RECURSIVE ResourceTypes(_)
\* parsed.body.filter(b => b.resource).map(b => b.resource.type)
ResourceTypes(blocks) ==
    IF blocks = <<>> THEN <<>>
    ELSE (IF Head(blocks).resource # Absent THEN <<Head(blocks).resource>> ELSE <<>>)
         \o ResourceTypes(Tail(blocks))

Terraform(cat, a, doc) ==
    IF ~doc.readable THEN Ended(a, "error")
    ELSE IF ~doc.wellFormed THEN Ended(a, "skipped")
    ELSE IF ~doc.hasBody THEN Ended(a, "error")
    ELSE LET providerBlocks == SelectSeq(doc.body, LAMBDA b : b.provider # Absent)
             resources == ResourceTypes(doc.body)
             pushed == [a EXCEPT
                          !.providers = AddProviders(@, providerBlocks),
                          !.vendorServicesFound = @ \o resources,
                          !.totalServices = @ + Len(resources)]
         IN  Ended(EvaluateResources(cat, pushed, resources), "ok")

\* [x, x, ..., x] of length n
Fill(n, x) == [k \in 1..n |-> x]

\* ------------------------------------------- 2. YAML (.yml / .yaml)
\* if (config.provider?.name) { ... }: the provider is added first; the
\* function names come from (config.functions || []).map(...), which exists
\* on a list only, so a `functions` mapping throws after the add.
ProviderDetection(a, doc) ==
    IF doc.providerName = Absent THEN Ended(a, "ok")
    ELSE LET added == [a EXCEPT !.providers = SetAdd(@, doc.providerName)]
             functions ==
                 Fill(IF doc.functions.shape = "list" THEN doc.functions.n ELSE 0,
                      doc.providerName \o "_function")
         IN  IF doc.functions.shape = "map" THEN Ended(added, "error")
             ELSE Ended([added EXCEPT
                            !.vendorServicesFound = @ \o functions,
                            !.totalServices = @ + Len(functions),
                            !.highRiskServices = @ + Len(functions) * 2],
                        "ok")

\* A bug that would assign the compose services to the shared list instead
\* of pushing onto it, dropping what earlier files found.
ComposeDetectionReplacing(a, file, doc) ==
    IF Includes(file, "docker-compose")
    THEN LET serviceCount == IF doc.services.present THEN doc.services.n ELSE 0
         IN  [a EXCEPT !.openStandardsCount = @ + serviceCount,
                       !.vendorServicesFound = <<"docker">>,
                       !.totalServices = @ + serviceCount]
    ELSE a

\* if (file.includes("docker-compose")) { ... }
ComposeDetection(a, file, doc) ==
    IF Includes(file, "docker-compose")
    THEN LET serviceCount == IF doc.services.present THEN doc.services.n ELSE 0
         IN  [a EXCEPT !.openStandardsCount = @ + serviceCount,
                       !.vendorServicesFound = Append(@, "docker"),
                       !.totalServices = @ + serviceCount]
    ELSE a

\* The two Helm checks: apiVersion containing helm.sh, kind equal to Chart.
HelmDetection(a, doc) ==
    LET byApiVersion ==
            IF doc.apiVersion # Absent /\ doc.apiVersion # NonString
               /\ Includes(doc.apiVersion, "helm.sh")
            THEN [a EXCEPT !.openStandardsCount = @ + 1] ELSE a
    IN  IF doc.kind = "Chart"
        THEN [byApiVersion EXCEPT !.openStandardsCount = @ + 1]
        ELSE byApiVersion

Yaml(a, file, doc) ==
    IF ~doc.readable THEN Ended(a, "error")
    ELSE IF ~doc.wellFormed THEN Ended(a, "skipped")
    ELSE IF ~doc.isObject THEN Ended(a, "error")
    ELSE LET detected == ProviderDetection(a, doc)
         IN  IF detected.outcome = "error" THEN detected
             ELSE Ended(HelmDetection(ComposeDetection(detected.acc, file, doc), doc),
                        "ok")

\* ------------------------------------------ 3. CloudFormation (.json)
RECURSIVE Resources(_, _)
\* for (const resourceKey of Object.keys(cfTemplate.Resources)) { ... }:
\* a null entry throws at resourceObj.Type with the earlier entries merged.
Resources(a, entries) ==
    IF entries = <<>> THEN Ended(a, "ok")
    ELSE LET resourceObj == Head(entries)
             typePath == Split(resourceObj.Type, "::")
             guessedName == ToLowerCase(Join(typePath, "_"))
         IN  IF resourceObj.isNull THEN Ended(a, "error")
             ELSE IF resourceObj.Type = Absent \/ resourceObj.Type = NonString
                     \/ typePath[1] # "AWS"
             THEN Resources(a, Tail(entries))
             ELSE Resources(
                    [a EXCEPT
                       !.providers = SetAdd(@, "aws"),
                       !.vendorServicesFound = Append(@, guessedName),
                       !.totalServices = @ + 1,
                       !.highRiskServices =
                           IF Includes(guessedName, "lambda")
                              \/ Includes(guessedName, "ddb")
                           THEN @ + 10 ELSE @],
                    Tail(entries))

CloudFormation(a, doc) ==
    IF ~doc.readable \/ ~doc.wellFormed THEN Ended(a, "skipped")
    ELSE IF ~doc.isObject THEN Ended(a, "error")
    ELSE IF ~doc.hasResources THEN Ended(a, "ok")
    ELSE Resources(a, doc.Resources)

\* ------------------------------------------------- 4. package.json
PackageJson(a, doc) ==
    IF ~doc.readable \/ ~doc.wellFormed \/ ~doc.isObject THEN Ended(a, "error")
    ELSE LET aws ==
                IF "aws-sdk" \in doc.deps \/ "@aws-sdk/client-s3" \in doc.deps
                THEN [a EXCEPT !.providers = SetAdd(@, "aws"),
                               !.vendorServicesFound = Append(@, "aws_sdk"),
                               !.totalServices = @ + 1,
                               !.highRiskServices = @ + 1]
                ELSE a
         IN  IF "@azure/storage-blob" \in doc.deps
             THEN Ended([aws EXCEPT !.providers = SetAdd(@, "azure"),
                                    !.vendorServicesFound = Append(@, "azure_blob"),
                                    !.totalServices = @ + 1,
                                    !.highRiskServices = @ + 1],
                        "ok")
             ELSE Ended(aws, "ok")

\* ------------------------------------------------------- the dispatch
\* The if / else-if chain on the file name, in the order of the code.
Dispatch(file) ==
    IF EndsWith(file, ".tf") THEN "terraform"
    ELSE IF EndsWith(file, ".yml") \/ EndsWith(file, ".yaml") THEN "yaml"
    ELSE IF EndsWith(file, ".json") THEN "cloudformation"
    ELSE IF EndsWith(file, "package.json") THEN "package"
    ELSE "none"

\* The body of the outer try for one file.
Extract(cat, a, file, doc) ==
    LET branch == Dispatch(file)
    IN  IF branch = "terraform" THEN Terraform(cat, a, doc)
        ELSE IF branch = "yaml" THEN Yaml(a, file, doc)
        ELSE IF branch = "cloudformation" THEN CloudFormation(a, doc)
        ELSE IF branch = "package" THEN PackageJson(a, doc)
        ELSE Ended(a, "ok")

\* A loop without the two catch blocks: a failing file rejects the promise.
LoopControlUncaught(outcome) == IF outcome = "ok" THEN "loop" ELSE "rejected"

\* Where the loop goes after one file: on to the next file at the end of the
\* try block, after the inner catch (`continue`), and after the outer catch,
\* which only warns in debug mode.
LoopControl(outcome) ==
    CASE outcome = "ok" -> "loop"
      [] outcome = "skipped" -> "loop"
      [] outcome = "error" -> "loop"

\* ------------------------------------------------------- the scoring
RECURSIVE LockInSum(_, _)
\* vendorServicesFound.forEach(...): the catalog lockInScore of every
\* occurrence the catalog knows, summed (tenths).
LockInSum(cat, services) ==
    IF services = <<>> THEN 0
    ELSE LET list == Flat(cat)
             k == FindIndex(list, Head(services))
         IN  (IF k = 0 THEN 0 ELSE list[k].lockInScore)
             + LockInSum(cat, Tail(services))

\* lockInScore = totalServices ? (lockInScore / totalServices) * 100 : 0
LockInScore(cat, a) ==
    IF a.totalServices # 0
    THEN Frac(LockInSum(cat, a.vendorServicesFound) * 10, a.totalServices)
    ELSE <<0, 1>>

\* An off-by-one in the provider count: no provider counts as a single one.
SingleProviderPenaltyAtMostOne(size) == IF size <= 1 THEN 50 ELSE 0

\* providers.size === 1 ? 50 : 0
SingleProviderPenalty(size) == IF size = 1 THEN 50 ELSE 0

\* A bug that would charge the redundancy penalty to several providers
\* instead of to a single one.
RedundancyPenaltySeveral(size) == IF size > 1 THEN 30 ELSE 0

\* providers.size === 1 ? 30 : 0
RedundancyPenalty(size) == IF size = 1 THEN 30 ELSE 0

\* A bug that would return the sum of the penalties without the cap.
DeplatformingRiskScoreUnclamped(a) ==
    SingleProviderPenalty(Len(a.providers)) + a.highRiskServices * 2
        + RedundancyPenalty(Len(a.providers))

\* Math.min(100, singleProviderPenalty + highRiskServices * 20 + redundancyPenalty)
DeplatformingRiskScore(a) ==
    Min(100, SingleProviderPenalty(Len(a.providers))
             + a.highRiskServices * 2
             + RedundancyPenalty(Len(a.providers)))

\* totalServices ? openStandardsCount / totalServices : 0
PortabilityScore(a) ==
    IF a.totalServices # 0 THEN Frac(a.openStandardsCount, a.totalServices)
    ELSE <<0, 1>>

\* Math.round(x) for the fraction x: the nearest integer, halves upwards.
Round(x) == (2 * x[1] + x[2]) \div (2 * x[2])

\* Math.round(100 - lockInScore * 0.5 - deplatformingRiskScore * 0.3
\*            - (1 - portabilityScore) * 20)
ClvScore(lockIn, deplatforming, portability) ==
    LET den == 10 * lockIn[2] * portability[2]
        num == 1000 * lockIn[2] * portability[2]
               - 5 * lockIn[1] * portability[2]
               - 3 * deplatforming * lockIn[2] * portability[2]
               - 200 * (portability[2] - portability[1]) * lockIn[2]
    IN  Round(<<num, den>>)

\* A bug that would put the boundary score 50 on the wrong side.
RiskLabelInclusive(clvScore) ==
    IF clvScore <= 50 THEN "VULNERABLE"
    ELSE IF clvScore <= 75 THEN "AT RISK" ELSE "CAUTIOUS"

RiskLabel(clvScore) ==
    IF clvScore < 50 THEN "VULNERABLE"
    ELSE IF clvScore <= 75 THEN "AT RISK" ELSE "CAUTIOUS"

DeplatformingRisk(score) ==
    IF score > 70 THEN "HIGH" ELSE IF score > 30 THEN "Moderate" ELSE "Low"

\* The record analyzeFiles returns (the two static lists left out).
ScanResults(cat, a) ==
    LET lockInScore == LockInScore(cat, a)
        deplatformingRiskScore == DeplatformingRiskScore(a)
        portabilityScore == PortabilityScore(a)
        clvScore == ClvScore(lockInScore, deplatformingRiskScore, portabilityScore)
    IN  [ clvScore |-> clvScore,
          lockInScore |-> lockInScore,
          deplatformingRiskScore |-> deplatformingRiskScore,
          portabilityScore |-> portabilityScore,
          vendorServices |-> a.vendorServicesFound,
          providers |-> a.providers,
          riskLabel |-> RiskLabel(clvScore),
          deplatformingRisk |-> DeplatformingRisk(deplatformingRiskScore) ]

\* A bug that would warn about a skipped or failing file whatever DEBUG is.
WarnAlways(env, printed, file, outcome) ==
    IF outcome # "ok"
    THEN Append(printed, [file |-> file, outcome |-> outcome])
    ELSE printed

\* The inner catches ("Skipping invalid ... file") and the outer catch
\* ("Error processing ...") warn under `process.env.DEBUG === "true"` only.
Warn(env, printed, file, outcome) ==
    IF env = "true" /\ outcome # "ok"
    THEN Append(printed, [file |-> file, outcome |-> outcome])
    ELSE printed

\* ------------------------------------------------------- the actions
Init ==
    /\ vendorServices \in Catalogs
    /\ files \in SeqsUpTo(FileNames, MaxFiles)
    /\ pc = "idle"
    /\ calls = 0
    /\ i = 0
    /\ acc = EmptyAccumulator
    /\ handled = <<>>
    /\ results = <<>>
    /\ debug = Absent
    /\ warnings = <<>>
    /\ parser = ParserIdle
    /\ scan = ScanIdle
    /\ tasks = TasksIdle

\* analyzeFiles(files, rootDir) is called: the locals are created.
StartCall ==
    /\ pc \in {"idle", "done"}
    /\ calls < MaxCalls
    /\ calls' = calls + 1
    /\ pc' = "loop"
    /\ i' = 0
    /\ acc' = NewAccumulator
    /\ handled' = <<>>
    /\ UNCHANGED <<vendorServices, files, results, debug, warnings>>
    /\ UNCHANGED aside

\* One iteration of `for (const file of files)`: the try block on the next
\* file and, when it throws, the outer catch.
ProcessFile ==
    /\ pc = "loop"
    /\ i < Len(files)
    /\ LET file == files[i + 1]
           ended == Extract(vendorServices, acc, file, FileSystem[file])
       IN  /\ acc' = ended.acc
           /\ handled' = Append(handled, [file |-> file,
                                          extractor |-> Dispatch(file),
                                          outcome |-> ended.outcome])
           /\ pc' = LoopControl(ended.outcome)
           /\ warnings' = Warn(debug, warnings, file, ended.outcome)
    /\ i' = i + 1
    /\ UNCHANGED <<vendorServices, files, calls, results, debug>>
    /\ UNCHANGED aside

\* The loop is over: the scores are computed and the promise resolves.
Finish ==
    /\ pc = "loop"
    /\ i = Len(files)
    /\ results' = Append(results, ScanResults(vendorServices, acc))
    /\ pc' = "done"
    /\ UNCHANGED <<vendorServices, files, calls, i, acc, handled, debug, warnings>>
    /\ UNCHANGED aside

Next == StartCall \/ ProcessFile \/ Finish

Spec == Init /\ [][Next]_vars

\* The result of the call that finished last.
LastResult == results[Len(results)]

\* ===================================================================
\* The claims
\* ===================================================================

\* The call that finished last was given the empty file list.
EmptyCallDone == pc = "done" /\ files = <<>>

\* C1: a file whose name ends with `package.json` is always handled by the
\* package-manifest extractor, and only `.json` files that are not
\* `package.json` reach the CloudFormation extractor.
C1_ManifestBeforeJson ==
    \A k \in DOMAIN handled :
        /\ EndsWith(handled[k].file, "package.json")
              => handled[k].extractor = "package"
        /\ handled[k].extractor = "cloudformation"
              => /\ EndsWith(handled[k].file, ".json")
                 /\ ~EndsWith(handled[k].file, "package.json")

\* C2: analyzeFiles called with an empty file list returns a freedom score
\* (clvScore) of 100.
C2_EmptyListScores100 == EmptyCallDone => LastResult.clvScore = 100

\* C3: analyzeFiles called with an empty file list resolves with
\* vendorServices = [], providers = [], lockInScore = 0, portabilityScore = 0,
\* deplatformingRiskScore = 0, riskLabel CAUTIOUS and deplatformingRisk Low.
C3_EmptyListZeroRisk ==
    EmptyCallDone =>
        /\ LastResult.vendorServices = <<>>
        /\ LastResult.providers = <<>>
        /\ LastResult.lockInScore = <<0, 1>>
        /\ LastResult.portabilityScore = <<0, 1>>
        /\ LastResult.deplatformingRiskScore = 0
        /\ LastResult.riskLabel = "CAUTIOUS"
        /\ LastResult.deplatformingRisk = "Low"

C3_Witness == EmptyCallDone /\ Len(results) = 1 /\ LastResult.clvScore = 80

\* The totals after the files of `list`, visited in order from the totals `a`.
RECURSIVE Accumulate(_, _, _)
Accumulate(cat, a, list) ==
    IF list = <<>> THEN a
    ELSE Accumulate(cat, Extract(cat, a, Head(list), FileSystem[Head(list)]).acc,
                    Tail(list))

\* A readable Terraform file whose content hcl.parse rejects.
InvalidTerraform(file) ==
    /\ EndsWith(file, ".tf")
    /\ FileSystem[file].readable
    /\ ~FileSystem[file].wellFormed

\* C4: a Terraform file whose content fails to parse never makes analyzeFiles
\* reject; it contributes zero facts, and every other file of the call,
\* before or after it, is still processed and reflected in the result: the
\* result is the one of the same list without the unparsable Terraform files.
C4_InvalidTerraformSkipped ==
    /\ pc # "rejected"
    /\ \A k \in DOMAIN handled :
          InvalidTerraform(handled[k].file) => handled[k].outcome = "skipped"
    /\ pc = "done" =>
          /\ Len(handled) = Len(files)
          /\ LastResult =
                ScanResults(vendorServices,
                    Accumulate(vendorServices, EmptyAccumulator,
                        SelectSeq(files, LAMBDA f : ~InvalidTerraform(f))))

C4_Witness ==
    /\ pc = "done"
    /\ Len(files) = 2
    /\ InvalidTerraform(files[1])
    /\ handled[2].outcome = "ok"
    /\ LastResult.vendorServices # <<>>

\* C5: for every file list and every combination of per-file failures
\* (unreadable file, parse error, unexpected document shape) analyzeFiles
\* resolves and never rejects; the loop visits every file after a failing one.
C5_NeverRejects ==
    /\ pc # "rejected"
    /\ pc = "loop" => Len(handled) = i /\ i <= Len(files)
    /\ \A k \in DOMAIN handled : handled[k].file = files[k]
    /\ pc = "done" => Len(handled) = Len(files) /\ Len(results) = calls

C5_Witness ==
    /\ pc = "done"
    /\ Len(files) = 2
    /\ handled[1].outcome = "error"
    /\ ~FileSystem[files[1]].readable
    /\ handled[2].outcome = "ok"
    /\ LastResult.vendorServices # <<>>

\* C6: a file whose processing fails at any point contributes zero facts:
\* after the failing file the provider set, the service-occurrence list,
\* totalServices, the open-standards counter and the high-risk counter all
\* equal their values before that file.
C6_FailedFileContributesNothing ==
    [][ ( /\ pc = "loop"
          /\ Len(handled') = Len(handled) + 1
          /\ handled'[Len(handled')].outcome # "ok" )
        => acc' = acc ]_vars

\* The catalog descriptor of `name` has deplatformRisk > 0.3.
HighRisk(cat, name) ==
    LET k == FindIndex(Flat(cat), name)
    IN  k # 0 /\ Flat(cat)[k].deplatformRisk > HighRiskThreshold

\* C7: adding one more occurrence of a service whose catalog deplatformRisk
\* exceeds 0.3 to a fixed set of scanned facts never yields a greater freedom
\* score (here: the next file is a Terraform file declaring exactly one
\* resource, of such a service, and nothing else).
C7_HighRiskNeverRaisesScore ==
    [][ ( /\ pc = "loop"
          /\ i < Len(files)
          /\ i' = i + 1
          /\ EndsWith(files[i + 1], ".tf")
          /\ FileSystem[files[i + 1]].hasBody
          /\ Len(FileSystem[files[i + 1]].body) = 1
          /\ HighRisk(vendorServices, FileSystem[files[i + 1]].body[1].resource) )
        => ScanResults(vendorServices, acc').clvScore
              <= ScanResults(vendorServices, acc).clvScore ]_vars

\* C8: two analyzeFiles calls with the same file list over unchanged file
\* contents return identical results: every call starts from a fresh
\* accumulator.
C8_SameInputSameResult ==
    \A j, k \in DOMAIN results : results[j] = results[k]

C8_Witness ==
    /\ Len(results) = 2
    /\ results[1].vendorServices # <<>>
    /\ results[1].providers # <<>>

\* Occurrences of x in the sequence q.
Count(q, x) == Cardinality({k \in DOMAIN q : q[k] = x})

\* A YAML file, named with docker-compose, that parses to a document with a
\* top-level `services` mapping.
ComposeFile(file) ==
    /\ Dispatch(file) = "yaml"
    /\ Includes(file, "docker-compose")
    /\ FileSystem[file].readable /\ FileSystem[file].wellFormed
    /\ FileSystem[file].isObject
    /\ FileSystem[file].services.present

\* C9: a docker-compose YAML file whose `services` mapping has N entries
\* contributes exactly N `docker` entries to vendorServices; when it is the
\* only file, portabilityScore is 1.0.
C9_ComposeContributesNDocker ==
    (pc = "done" /\ Len(files) = 1 /\ ComposeFile(files[1])) =>
        /\ Count(LastResult.vendorServices, "docker")
              = FileSystem[files[1]].services.n
        /\ LastResult.portabilityScore = <<1, 1>>

\* C10: after every processed file, totalServices equals the number of
\* entries of the service-occurrence list, duplicates counted.
C10_TotalIsListLength ==
    pc \in {"loop", "done"} => acc.totalServices = Len(acc.vendorServicesFound)

\* 0 <= x <= 1 for the fraction x.
InUnitInterval(x) == FracLeq(<<0, 1>>, x) /\ FracLeq(x, <<1, 1>>)

\* C11: for every input file list the returned portabilityScore lies in
\* [0, 1]: the open-standards counter never exceeds totalServices.
C11_PortabilityInUnitInterval ==
    /\ acc.openStandardsCount <= acc.totalServices
    /\ \A k \in DOMAIN results : InUnitInterval(results[k].portabilityScore)

\* C12: for every input file list and every catalog whose lockInScore values
\* are in [0, 1], the returned lockInScore lies in [0, 100]: it is 0 when
\* totalServices is 0 and otherwise 100 times the mean catalog lockInScore
\* over all the service occurrences.
C12_LockInIsMeanOverOccurrences ==
    pc = "done" =>
        LET occurrences == LastResult.vendorServices
        IN  /\ FracLeq(<<0, 1>>, LastResult.lockInScore)
            /\ FracLeq(LastResult.lockInScore, <<100, 1>>)
            /\ acc.totalServices = 0 => LastResult.lockInScore = <<0, 1>>
            /\ (acc.totalServices # 0 /\ occurrences # <<>>) =>
                  LastResult.lockInScore =
                      Frac(LockInSum(vendorServices, occurrences) * 10,
                           Len(occurrences))

\* C13: deplatformingRiskScore = min(100, 50*[exactly one unique provider]
\* + 20*highRiskTotal + 30*[exactly one unique provider]); it is never above
\* 100 and never below 0, and with zero providers or with two or more unique
\* providers neither provider-count penalty is applied. (highRiskServices is
\* kept in tenths, so 20*highRiskTotal is 2*acc.highRiskServices.)
C13_DeplatformingRiskFormula ==
    pc = "done" =>
        LET n == Len(LastResult.providers)
            one == IF n = 1 THEN 1 ELSE 0
            score == LastResult.deplatformingRiskScore
        IN  /\ score = Min(100, 50 * one + 2 * acc.highRiskServices + 30 * one)
            /\ 0 <= score /\ score <= 100
            /\ n # 1 => score = Min(100, 2 * acc.highRiskServices)

\* A finished call with two providers and some high-risk total: no
\* provider-count penalty, only the high-risk term.
C13_Witness ==
    /\ pc = "done"
    /\ Len(LastResult.providers) >= 2
    /\ acc.highRiskServices > 0
    /\ LastResult.deplatformingRiskScore = 2 * acc.highRiskServices

\* C14: for every input file list, the returned Freedom Score is within 0 to
\* 100 inclusive.
C14_FreedomScoreInRange ==
    \A k \in DOMAIN results :
        0 <= results[k].clvScore /\ results[k].clvScore <= 100

\* The Terraform document with one `provider "aws"` block and one
\* `resource "aws_lambda_function"` block.
AwsLambdaTerraform ==
    Hcl(<<ProviderBlock("aws"), ResourceBlock("aws_lambda_function")>>)

\* The call that finished last was given that Terraform file alone.
AwsLambdaCallDone ==
    /\ pc = "done"
    /\ Len(files) = 1
    /\ Dispatch(files[1]) = "terraform"
    /\ FileSystem[files[1]] = AwsLambdaTerraform

\* C15: a single Terraform file with one `provider "aws"` block and one
\* `resource "aws_lambda_function"` block yields providers = ["aws"],
\* vendorServices containing aws_lambda_function, deplatformingRiskScore >= 80
\* and a Freedom Score below 100.
C15_AwsLambdaTerraform ==
    AwsLambdaCallDone =>
        /\ LastResult.providers = <<"aws">>
        /\ Count(LastResult.vendorServices, "aws_lambda_function") >= 1
        /\ LastResult.deplatformingRiskScore >= 80
        /\ LastResult.clvScore < 100

C15_Witness ==
    /\ AwsLambdaCallDone
    /\ LastResult.vendorServices = <<"aws_lambda_function">>
    /\ LastResult.deplatformingRiskScore = 80
    /\ LastResult.clvScore = 16

\* The call that finished last was given one readable package.json alone.
ManifestCallDone ==
    /\ pc = "done"
    /\ Len(files) = 1
    /\ EndsWith(files[1], "package.json")
    /\ FileSystem[files[1]].readable /\ FileSystem[files[1]].wellFormed
    /\ FileSystem[files[1]].isObject

\* 1 if the proposition holds, 0 otherwise.
Indicator(b) == IF b THEN 1 ELSE 0

\* C16: scanning a package.json whose merged dependencies contain aws-sdk (or
\* @aws-sdk/client-s3) yields providers containing aws, exactly one aws_sdk
\* entry in vendorServices for that file and a high-risk contribution of
\* exactly 0.1; @azure/storage-blob independently adds provider azure,
\* service azure_blob and another 0.1. (highRiskServices is in tenths.)
C16_ManifestSdkDetected ==
    ManifestCallDone =>
        LET deps == FileSystem[files[1]].deps
            aws == deps \cap {"aws-sdk", "@aws-sdk/client-s3"} # {}
            azure == "@azure/storage-blob" \in deps
        IN  /\ aws => /\ Count(LastResult.providers, "aws") = 1
                      /\ Count(LastResult.vendorServices, "aws_sdk") = 1
            /\ azure => /\ Count(LastResult.providers, "azure") = 1
                        /\ Count(LastResult.vendorServices, "azure_blob") = 1
            /\ acc.highRiskServices = Indicator(aws) + Indicator(azure)

\* The call that finished last was given one YAML file alone, not a compose
\* file, that parses to a document with a top-level provider.name.
ServerlessCallDone ==
    /\ pc = "done"
    /\ Len(files) = 1
    /\ Dispatch(files[1]) = "yaml"
    /\ ~Includes(files[1], "docker-compose")
    /\ FileSystem[files[1]].readable /\ FileSystem[files[1]].wellFormed
    /\ FileSystem[files[1]].isObject
    /\ FileSystem[files[1]].providerName # Absent

\* Entries of the top-level `functions` collection: of a list or of a
\* mapping, zero when the key is absent.
FunctionEntries(doc) ==
    IF doc.functions.shape \in {"list", "map"} THEN doc.functions.n ELSE 0

\* C17: for a YAML document with a top-level provider.name, the number of
\* function service entries emitted equals the number of entries of the
\* top-level `functions` collection, whether that collection is a list or a
\* mapping (zero when absent), and the high-risk increment is 0.2 per
\* function (2 tenths).
C17_OneEntryPerFunction ==
    ServerlessCallDone =>
        /\ Len(LastResult.vendorServices) = FunctionEntries(FileSystem[files[1]])
        /\ acc.highRiskServices = 2 * FunctionEntries(FileSystem[files[1]])

\* serviceNameMap[provider] || `${provider}_function` of parseYamlFile: the
\* fixed table of the five listed providers and the fallback.
ServiceNameMap(provider) ==
    CASE provider = "aws" -> "aws_lambda_function"
      [] provider = "azure" -> "azurerm_function_app"
      [] provider = "gcp" -> "google_cloud_functions"
      [] provider = "ibm" -> "ibm_cloud_function"
      [] provider = "oracle" -> "oci_functions_function"
      [] OTHER -> provider \o "_function"

\* C18: the service name emitted for each serverless function is the
\* fixed-table image of the provider name (aws -> aws_lambda_function,
\* azure -> azurerm_function_app, gcp -> google_cloud_functions,
\* ibm -> ibm_cloud_function, oracle -> oci_functions_function) and
\* `<provider>_function` only for a provider not in the table.
C18_FunctionNameFromTable ==
    ServerlessCallDone =>
        \A k \in DOMAIN LastResult.vendorServices :
            LastResult.vendorServices[k]
                = ServiceNameMap(FileSystem[files[1]].providerName)

\* The entries of `after` behind the first Len(before) ones.
Added(before, after) == SubSeq(after, Len(before) + 1, Len(after))

\* Occurrences in q of names whose catalog descriptor is high-risk.
HighRiskCount(cat, q) == Cardinality({k \in DOMAIN q : HighRisk(cat, q[k])})

\* Occurrences in q of names listed in the catalog's portable bucket.
PortableCount(cat, q) == Cardinality({k \in DOMAIN q : IsPortable(cat, q[k])})

\* The increment the extractor itself reports for the entries it emitted, in
\* tenths: 0.2 per serverless function, 0.1 per matched dependency, nothing
\* from Terraform and CloudFormation.
ExtractorIncrement(extractor, q) ==
    CASE extractor = "yaml" -> 2 * (Len(q) - Count(q, "docker"))
      [] extractor = "package" -> Len(q)
      [] OTHER -> 0

\* C19: the high-risk occurrence counter is incremented by exactly 1 for
\* every service occurrence, from any file format, whose catalog descriptor
\* has deplatformRisk > 0.3, and by nothing for an occurrence with no such
\* descriptor; the open-standards counter is incremented by 1 for every
\* occurrence whose name is in the catalog's portable bucket. (Per processed
\* file; the high-risk total is in tenths and also holds the extractor's own
\* increment.)
C19_CountersFollowCatalog ==
    [][ ( /\ pc = "loop"
          /\ i < Len(files)
          /\ i' = i + 1 )
        => LET new == Added(acc.vendorServicesFound, acc'.vendorServicesFound)
           IN  /\ acc'.highRiskServices - acc.highRiskServices
                    = 10 * HighRiskCount(vendorServices, new)
                      + ExtractorIncrement(Dispatch(files[i + 1]), new)
               /\ acc'.openStandardsCount - acc.openStandardsCount
                    = PortableCount(vendorServices, new) ]_vars

\* C20: riskLabel is a total function of the freedom score that always agrees
\* with it: VULNERABLE iff score < 50, AT RISK iff 50 <= score <= 75,
\* CAUTIOUS iff score > 75; likewise deplatformingRisk is HIGH iff
\* deplatformingRiskScore > 70, Moderate iff 30 < score <= 70, Low otherwise.
C20_LabelsAgreeWithScores ==
    \A k \in DOMAIN results :
        LET score == results[k].clvScore
            risk == results[k].deplatformingRiskScore
        IN  /\ results[k].riskLabel \in {"VULNERABLE", "AT RISK", "CAUTIOUS"}
            /\ results[k].riskLabel = "VULNERABLE" <=> score < 50
            /\ results[k].riskLabel = "AT RISK" <=> (50 <= score /\ score <= 75)
            /\ results[k].riskLabel = "CAUTIOUS" <=> score > 75
            /\ results[k].deplatformingRisk \in {"HIGH", "Moderate", "Low"}
            /\ results[k].deplatformingRisk = "HIGH" <=> risk > 70
            /\ results[k].deplatformingRisk = "Moderate" <=> (30 < risk /\ risk <= 70)
            /\ results[k].deplatformingRisk = "Low" <=> risk <= 30

\* A finished call whose score sits on the boundary 50: labelled AT RISK,
\* with a deplatforming risk in the highest band.
C20_Witness ==
    /\ pc = "done"
    /\ LastResult.clvScore = 50
    /\ LastResult.riskLabel = "AT RISK"
    /\ LastResult.deplatformingRiskScore > 70
    /\ LastResult.deplatformingRisk = "HIGH"

\* ===================================================================
\* The parsing helpers (parseTerraformFile, parseYamlFile,
\* parseCloudFormationFile, parsePackageJsonFile), each a function from
\* one file to ParsedData
\* ===================================================================

\* Most entries of a `functions`, `services` or `Resources` collection.
MaxEntries == 2

\* { providers: [], services: [], highRiskIncrement: 0 }
EmptyFacts == [providers |-> <<>>, services |-> <<>>, highRiskIncrement |-> 0]

\* The promise of a helper resolves with ParsedData or rejects.
Returned(data) == [threw |-> FALSE, data |-> data]
Threw == [threw |-> TRUE, data |-> EmptyFacts]

\* readFile is outside the try; hcl.parse is inside it; `.body` of a null
\* parse result throws; body ?? [] covers a missing body.
ParseTerraformFile(doc) ==
    IF ~doc.readable THEN Threw
    ELSE IF ~doc.wellFormed THEN Returned(EmptyFacts)
    ELSE IF ~doc.isObject THEN Threw
    ELSE LET body == IF doc.hasBody THEN doc.body ELSE <<>>
             providerBlocks == SelectSeq(body, LAMBDA b : b.provider # Absent)
         IN  Returned([providers |->
                           [k \in DOMAIN providerBlocks |-> providerBlocks[k].provider],
                       services |-> ResourceTypes(body),
                       highRiskIncrement |-> 0])

RECURSIVE Basename(_)
\* path.basename: what follows the last "/".
Basename(filePath) ==
    LET k == IndexOf(filePath, "/")
    IN  IF k = 0 THEN filePath
        ELSE Basename(SubSeq(filePath, k + 1, Len(filePath)))

\* if (cfg.provider?.name) { ... }: both shapes of `functions` are counted
\* (Array.isArray ? length : Object.keys().length), `|| {}` when absent.
YamlProvider(doc) ==
    IF doc.providerName = Absent THEN EmptyFacts
    ELSE LET functionCount ==
                 IF doc.functions.shape \in {"list", "map"}
                 THEN doc.functions.n ELSE 0
         IN  [providers |-> <<doc.providerName>>,
              services |-> Fill(functionCount, ServiceNameMap(doc.providerName)),
              highRiskIncrement |-> functionCount * 2]

\* if (path.basename(filePath).includes("docker-compose")):
\* services = Array(serviceCount).fill("docker"), an assignment.
YamlCompose(facts, filePath, doc) ==
    IF Includes(Basename(filePath), "docker-compose")
    THEN LET serviceCount == IF doc.services.present THEN doc.services.n ELSE 0
         IN  [facts EXCEPT !.services = Fill(serviceCount, "docker")]
    ELSE facts

\* The two Helm checks, each with its own services.push("helm").
YamlHelm(facts, doc) ==
    LET byApiVersion ==
            IF doc.apiVersion # Absent /\ doc.apiVersion # NonString
               /\ Includes(doc.apiVersion, "helm.sh")
            THEN [facts EXCEPT !.services = Append(@, "helm")] ELSE facts
    IN  IF doc.kind = "Chart"
        THEN [byApiVersion EXCEPT !.services = Append(@, "helm")]
        ELSE byApiVersion

\* readFile outside the try, yaml.load inside it; cfg.provider of a null
\* document throws.
ParseYamlFile(filePath, doc) ==
    IF ~doc.readable THEN Threw
    ELSE IF ~doc.wellFormed THEN Returned(EmptyFacts)
    ELSE IF ~doc.isObject THEN Threw
    ELSE Returned(YamlHelm(YamlCompose(YamlProvider(doc), filePath, doc), doc))

RECURSIVE ParseResources(_, _)
\* for (const key of Object.keys(template.Resources)) { ... }: a null entry
\* throws at resourceObj.Type and the promise rejects.
ParseResources(facts, entries) ==
    IF entries = <<>> THEN Returned(facts)
    ELSE LET resourceObj == Head(entries)
             typePath == Split(resourceObj.Type, "::")
         IN  IF resourceObj.isNull THEN Threw
             ELSE IF resourceObj.Type = Absent \/ resourceObj.Type = NonString
                     \/ typePath[1] # "AWS"
             THEN ParseResources(facts, Tail(entries))
             ELSE ParseResources(
                    [facts EXCEPT
                       !.providers = Append(@, "aws"),
                       !.services = Append(@, ToLowerCase(Join(typePath, "_")))],
                    Tail(entries))

\* fs.readJson inside the try: an unreadable or malformed file gives empty
\* facts; template.Resources of a null document throws.
ParseCloudFormationFile(doc) ==
    IF ~doc.readable \/ ~doc.wellFormed THEN Returned(EmptyFacts)
    ELSE IF ~doc.isObject THEN Threw
    ELSE IF ~doc.hasResources THEN Returned(EmptyFacts)
    ELSE ParseResources(EmptyFacts, doc.Resources)

\* fs.readJson with no try around it: an unreadable or malformed manifest
\* rejects the promise.
ParsePackageJsonFile(doc) ==
    IF ~doc.readable \/ ~doc.wellFormed \/ ~doc.isObject THEN Threw
    ELSE LET aws ==
                IF "aws-sdk" \in doc.deps \/ "@aws-sdk/client-s3" \in doc.deps
                THEN [EmptyFacts EXCEPT !.providers = Append(@, "aws"),
                                        !.services = Append(@, "aws_sdk"),
                                        !.highRiskIncrement = @ + 1]
                ELSE EmptyFacts
         IN  IF "@azure/storage-blob" \in doc.deps
             THEN Returned([aws EXCEPT !.providers = Append(@, "azure"),
                                       !.services = Append(@, "azure_blob"),
                                       !.highRiskIncrement = @ + 1])
             ELSE Returned(aws)

\* ------------------------------------------- the files a helper is given
Blocks ==
    { ProviderBlock("aws"), ProviderBlock("google"),
      ResourceBlock("aws_lambda_function"), ResourceBlock("aws_s3_bucket") }

TerraformDocs ==
    {Unreadable, Malformed, NullDoc, Doc}
        \cup {Hcl(body) : body \in SeqsUpTo(Blocks, MaxEntries)}

FunctionShapes ==
    {[shape |-> "absent", n |-> 0]}
        \cup {[shape |-> sh, n |-> n] : sh \in {"list", "map"}, n \in 0..MaxEntries}

ServiceShapes ==
    {[present |-> FALSE, n |-> 0]}
        \cup {[present |-> TRUE, n |-> n] : n \in 0..MaxEntries}

YamlDocs ==
    {Unreadable, Malformed, NullDoc}
        \cup { [Doc EXCEPT !.providerName = p, !.functions = f, !.services = sv,
                           !.apiVersion = v, !.kind = kd] :
                 p \in {Absent, "aws", "azure", "digitalocean"},
                 f \in FunctionShapes, sv \in ServiceShapes,
                 v \in {Absent, NonString, "helm.sh/v1", "v2"},
                 kd \in {Absent, "Chart", "Deployment"} }

YamlPaths ==
    { "/repo/serverless.yml", "/repo/docker-compose.yml",
      "/repo/deploy/docker-compose.prod.yaml", "/repo/docker-compose/app.yml" }

Entries ==
    { Resource("AWS::Lambda::Function"), Resource("AWS::S3::Bucket"),
      Resource("Azure::Storage::Account"), Resource(Absent), Resource(NonString),
      NullResource }

TemplateDocs ==
    {Unreadable, Malformed, NullDoc, Doc}
        \cup {Template(entries) : entries \in SeqsUpTo(Entries, MaxEntries)}

ManifestDocs ==
    {Unreadable, Malformed, NullDoc}
        \cup { [Doc EXCEPT !.deps = d] :
                 d \in SUBSET {"aws-sdk", "@aws-sdk/client-s3",
                               "@azure/storage-blob", "express"} }

\* A helper has been called on filePath, whose content is doc.
Called(extractor, filePath, doc) ==
    [pc |-> "called", extractor |-> extractor, filePath |-> filePath,
     doc |-> doc, outcome |-> Threw]

ParserCalls ==
    {Called("terraform", "/repo/main.tf", d) : d \in TerraformDocs}
        \cup {Called("yaml", f, d) : f \in YamlPaths, d \in YamlDocs}
        \cup {Called("cloudformation", "/repo/template.json", d) : d \in TemplateDocs}
        \cup {Called("package", "/repo/package.json", d) : d \in ManifestDocs}

\* analyzeFiles is not running.
AnalyzerIdle ==
    /\ vendorServices = CHOOSE cat \in Catalogs : TRUE
    /\ files = <<>>
    /\ pc = "idle"
    /\ calls = 0
    /\ i = 0
    /\ acc = EmptyAccumulator
    /\ handled = <<>>
    /\ results = <<>>
    /\ debug = Absent
    /\ warnings = <<>>

analyzer == <<vendorServices, files, pc, calls, i, acc, handled, results,
              debug, warnings>>

ParserInit ==
    /\ AnalyzerIdle
    /\ parser \in ParserCalls
    /\ scan = ScanIdle
    /\ tasks = TasksIdle

\* The promise of the called helper settles.
Settle(outcome) ==
    /\ parser' = [parser EXCEPT !.pc = "settled", !.outcome = outcome]
    /\ UNCHANGED <<analyzer, scan, tasks>>

ParseTerraform ==
    /\ parser.pc = "called" /\ parser.extractor = "terraform"
    /\ Settle(ParseTerraformFile(parser.doc))

ParseYaml ==
    /\ parser.pc = "called" /\ parser.extractor = "yaml"
    /\ Settle(ParseYamlFile(parser.filePath, parser.doc))

ParseCloudFormation ==
    /\ parser.pc = "called" /\ parser.extractor = "cloudformation"
    /\ Settle(ParseCloudFormationFile(parser.doc))

ParsePackageJson ==
    /\ parser.pc = "called" /\ parser.extractor = "package"
    /\ Settle(ParsePackageJsonFile(parser.doc))

ParserNext == ParseTerraform \/ ParseYaml \/ ParseCloudFormation \/ ParsePackageJson

ParserSpec == ParserInit /\ [][ParserNext]_vars

\* C21: every format extractor (Terraform, YAML, CloudFormation JSON,
\* package manifest) recovers a parse failure of its file locally and
\* returns empty facts (no providers, no services, highRiskIncrement 0)
\* instead of throwing.
C21_ParseFailureGivesEmptyFacts ==
    (parser.pc = "settled" /\ parser.doc.readable /\ ~parser.doc.wellFormed) =>
        parser.outcome = Returned(EmptyFacts)

\* The CloudFormation helper has settled on a file that parses to an object.
TemplateParsed ==
    /\ parser.pc = "settled"
    /\ parser.extractor = "cloudformation"
    /\ parser.doc.readable /\ parser.doc.wellFormed /\ parser.doc.isObject

\* The entry is an object whose Type is a string with first segment AWS.
AwsEntry(entry) ==
    /\ ~entry.isNull
    /\ entry.Type # Absent /\ entry.Type # NonString
    /\ Split(entry.Type, "::")[1] = "AWS"

\* C22: CloudFormation extraction: a template without a `Resources` object
\* yields empty facts; otherwise each entry whose Type is a string starting
\* with segment AWS adds provider aws and the service name obtained by
\* joining the `::` segments with `_` and lower-casing, while every non-AWS
\* or malformed entry (missing Type, non-string Type, null entry) is skipped
\* on its own without affecting the entries before or after it.
C22_TemplateEntriesIndependent ==
    TemplateParsed =>
        IF ~parser.doc.hasResources
        THEN parser.outcome = Returned(EmptyFacts)
        ELSE LET kept == SelectSeq(parser.doc.Resources, AwsEntry)
             IN  /\ ~parser.outcome.threw
                 /\ parser.outcome.data.services =
                        [k \in DOMAIN kept |->
                            ToLowerCase(Join(Split(kept[k].Type, "::"), "_"))]
                 /\ parser.outcome.data.providers = [k \in DOMAIN kept |-> "aws"]
                 /\ parser.outcome.data.highRiskIncrement = 0

\* ===================================================================
\* scanCodebase(options): pattern choice, file discovery, analysis
\* ===================================================================

RECURSIVE TrimStart(_)
TrimStart(str) ==
    IF str # "" /\ SubSeq(str, 1, 1) = " "
    THEN TrimStart(SubSeq(str, 2, Len(str))) ELSE str

RECURSIVE TrimEnd(_)
TrimEnd(str) ==
    IF str # "" /\ SubSeq(str, Len(str), Len(str)) = " "
    THEN TrimEnd(SubSeq(str, 1, Len(str) - 1)) ELSE str

\* String.prototype.trim (blanks only)
Trim(str) == TrimEnd(TrimStart(str))

\* list.map(p => p.trim())
TrimAll(list) == [k \in DOMAIN list |-> Trim(list[k])]

DefaultPatterns ==
    << "**/*.tf", "**/*.yml", "**/*.yaml", "**/*.json", "**/Dockerfile",
       "**/package.json", "!node_modules/**", "!dist/**", "!build/**",
       "!vendor/**" >>

\* A bug that would let the environment override explicit options.
PatternsEnvFirst(filePatterns, env) ==
    IF env # Absent THEN TrimAll(Split(env, ","))
    ELSE IF filePatterns.given THEN TrimAll(filePatterns.list)
    ELSE DefaultPatterns

\* options.filePatterns?.map(trim) || FILE_PATTERNS?.split(",").map(trim)
\* || defaultPatterns: an array, even an empty one, is truthy.
Patterns(filePatterns, env) ==
    IF filePatterns.given THEN TrimAll(filePatterns.list)
    ELSE IF env # Absent THEN TrimAll(Split(env, ","))
    ELSE DefaultPatterns

\* process.cwd()
Cwd == "/cwd"

\* options.dir || process.cwd()
RootDir(dir) == IF dir = Absent \/ dir = "" THEN Cwd ELSE dir

\* The Error thrown inside the try when globby finds nothing.
NoFilesMessage(rootDir, patterns) ==
    "No infrastructure files found in " \o rootDir
        \o ". Ensure files match patterns (" \o Join(patterns, ", ")
        \o ") or check your .env FILE_PATTERNS."

\* The catch block: the error is classified by its message and re-thrown.
Rethrown(message, patterns) ==
    IF Includes(message, "Invalid glob pattern")
    THEN "Invalid file pattern in " \o Join(patterns, ", ")
            \o ". Please check your patterns."
    ELSE "Scanning failed: " \o message

\* What analyzeFiles resolves with for a file list: the loop over all the
\* files, then the scores.
Analysis(cat, list) == ScanResults(cat, Accumulate(cat, NewAccumulator, list))

\* ------------------------------------------------ what a scan is given
ScanDirs == {Absent, "/repo", "/srv/Invalid glob pattern"}

\* options.filePatterns: left out, or a list of patterns.
NotGiven == [given |-> FALSE, list |-> <<>>]
Given(list) == [given |-> TRUE, list |-> list]

FilePatternOptions ==
    {NotGiven, Given(<<>>), Given(<<" **/*.tf ">>),
     Given(<<"**/*.yml", "**/*.json">>)}

FilePatternEnvs == {Absent, "", "**/*.tf, **/*.yaml"}

\* What globby may find under the root directory.
Discoverable == {"main.tf", "template.json", "docker-compose.yml"}

\* What a rejected globby call may say.
GlobbyErrors == {"Invalid glob pattern: [", "EACCES: permission denied, scandir"}

ScanInit ==
    /\ AnalyzerIdle
    /\ parser = ParserIdle
    /\ tasks = TasksIdle
    /\ \E dir \in ScanDirs, filePatterns \in FilePatternOptions,
          env \in FilePatternEnvs :
            scan = [ pc |-> "called",
                     options |-> [dir |-> dir, filePatterns |-> filePatterns],
                     FILE_PATTERNS |-> env,
                     rootDir |-> Absent, patterns |-> <<>>,
                     globbyCalls |-> <<>>, analyzeCalls |-> <<>>,
                     globby |-> "pending", found |-> <<>>, message |-> Absent, results |-> <<>> ]

\* scanCodebase runs up to `await globby(patterns, { cwd: rootDir, ... })`.
CallGlobby ==
    /\ scan.pc = "called"
    /\ LET rootDir == RootDir(scan.options.dir)
           patterns == Patterns(scan.options.filePatterns, scan.FILE_PATTERNS)
       IN  scan' = [scan EXCEPT
                      !.pc = "globbing",
                      !.rootDir = rootDir,
                      !.patterns = patterns,
                      !.globbyCalls = Append(@, [patterns |-> patterns,
                                                 cwd |-> rootDir])]
    /\ UNCHANGED <<analyzer, parser, tasks>>

\* globby resolves with the files found: none is an Error thrown inside the
\* try and re-thrown by the catch; otherwise analyzeFiles is called.
GlobbyResolves ==
    /\ scan.pc = "globbing"
    /\ \E found \in SeqsUpTo(Discoverable, MaxFiles) :
          scan' = IF found = <<>>
                  THEN [scan EXCEPT
                          !.pc = "rejected",
                          !.globby = "resolved",
                          !.message = Rethrown(NoFilesMessage(scan.rootDir,
                                                              scan.patterns),
                                               scan.patterns)]
                  ELSE [scan EXCEPT
                          !.pc = "analyzing",
                          !.globby = "resolved",
                          !.found = found,
                          !.analyzeCalls = Append(@, [files |-> found,
                                                      rootDir |-> scan.rootDir])]
    /\ UNCHANGED <<analyzer, parser, tasks>>

\* globby rejects: the catch re-throws.
GlobbyRejects ==
    /\ scan.pc = "globbing"
    /\ \E message \in GlobbyErrors :
          scan' = [scan EXCEPT !.pc = "rejected",
                               !.globby = "rejected",
                               !.message = Rethrown(message, scan.patterns)]
    /\ UNCHANGED <<analyzer, parser, tasks>>

\* `return await analyzeFiles(files, rootDir)`: analyzeFiles resolves.
AnalyzeResolves ==
    /\ scan.pc = "analyzing"
    /\ LET call == scan.analyzeCalls[Len(scan.analyzeCalls)]
       IN  scan' = [scan EXCEPT
                      !.pc = "resolved",
                      !.results = <<Analysis(vendorServices, call.files)>>]
    /\ UNCHANGED <<analyzer, parser, tasks>>

ScanNext == CallGlobby \/ GlobbyResolves \/ GlobbyRejects \/ AnalyzeResolves

ScanSpec == ScanInit /\ [][ScanNext]_vars

\* File discovery has returned, with no file or with some.
DiscoveredNone == scan.pc # "idle" /\ scan.globby = "resolved" /\ scan.found = <<>>
DiscoveredSome == scan.pc # "idle" /\ scan.globby = "resolved" /\ scan.found # <<>>

\* C23: scanCodebase, when file discovery returns no files, fails with an
\* error whose message contains `No infrastructure files found` and never
\* invokes analyzeFiles; when discovery returns a non-empty list it calls
\* analyzeFiles exactly once with that list and the root directory and
\* returns its result unchanged.
C23_NoFilesIsAnError ==
    /\ DiscoveredNone =>
          /\ scan.pc = "rejected"
          /\ Includes(scan.message, "No infrastructure files found")
          /\ scan.analyzeCalls = <<>>
    /\ DiscoveredSome =>
          /\ scan.pc \in {"analyzing", "resolved"}
          /\ scan.analyzeCalls = <<[files |-> scan.found, rootDir |-> scan.rootDir]>>
          /\ scan.rootDir = RootDir(scan.options.dir)
          /\ scan.pc = "resolved" =>
                scan.results = <<Analysis(vendorServices, scan.found)>>

\* The string has no blank at either end.
Trimmed(str) ==
    str = "" \/ (SubSeq(str, 1, 1) # " " /\ SubSeq(str, Len(str), Len(str)) # " ")

\* C24: scanCodebase chooses its glob patterns by strict precedence:
\* explicit options.filePatterns if given, else the comma-separated
\* FILE_PATTERNS environment value (each trimmed), else the built-in default
\* list that includes `**/*.json`; exactly one of the three sources is used
\* per scan.
C24_PatternPrecedence ==
    scan.pc \in {"globbing", "analyzing", "resolved", "rejected"} =>
        LET given == scan.options.filePatterns
            env == scan.FILE_PATTERNS
            used == scan.globbyCalls[1].patterns
        IN  /\ Len(scan.globbyCalls) = 1
            /\ given.given =>
                  /\ Len(used) = Len(given.list)
                  /\ \A k \in DOMAIN used : used[k] = Trim(given.list[k])
            /\ (~given.given /\ env # Absent) =>
                  /\ Join(used, ",") = Join(TrimAll(Split(env, ",")), ",")
                  /\ \A k \in DOMAIN used : Trimmed(used[k])
            /\ (~given.given /\ env = Absent) =>
                  /\ used = DefaultPatterns
                  /\ \E k \in DOMAIN used : used[k] = "**/*.json"

\* Options and environment both name patterns: the options win.
C24_Witness ==
    /\ scan.pc = "analyzing"
    /\ scan.options.filePatterns = Given(<<" **/*.tf ">>)
    /\ scan.FILE_PATTERNS = "**/*.tf, **/*.yaml"
    /\ scan.globbyCalls = <<[patterns |-> <<"**/*.tf">>, cwd |-> "/repo"]>>

\* The YAML helper has settled on a file that parses to an object.
YamlParsed ==
    /\ parser.pc = "settled"
    /\ parser.extractor = "yaml"
    /\ parser.doc.readable /\ parser.doc.wellFormed /\ parser.doc.isObject

\* Top-level apiVersion containing helm.sh; top-level kind equal to Chart.
HelmApiVersion(doc) ==
    doc.apiVersion # Absent /\ doc.apiVersion # NonString
        /\ Includes(doc.apiVersion, "helm.sh")
HelmKind(doc) == doc.kind = "Chart"

\* C25: a YAML document that satisfies the Helm detection (top-level
\* apiVersion containing `helm.sh`, or top-level kind equal to `Chart`)
\* contributes exactly one `helm` service entry, also when both conditions
\* hold at once.
C25_OneHelmEntry ==
    (YamlParsed /\ (HelmApiVersion(parser.doc) \/ HelmKind(parser.doc))) =>
        /\ ~parser.outcome.threw
        /\ Count(parser.outcome.data.services, "helm") = 1

\* Every rearrangement of the sequence q.
Rearrangements(q) ==
    LET n == Len(q)
        bijections == {f \in [1..n -> 1..n] : \A j, k \in 1..n : f[j] = f[k] => j = k}
    IN  {[k \in 1..n |-> q[f[k]]] : f \in bijections}

\* The elements of the sequence q.
Range(q) == {q[k] : k \in DOMAIN q}

\* The two sequences hold the same elements the same number of times.
SameMultiset(p, q) ==
    /\ Len(p) = Len(q)
    /\ \A x \in Range(p) \cup Range(q) : Count(p, x) = Count(q, x)

\* The two results differ at most in the order of providers and services.
SameUpToOrder(r, t) ==
    /\ r.lockInScore = t.lockInScore
    /\ r.deplatformingRiskScore = t.deplatformingRiskScore
    /\ r.portabilityScore = t.portabilityScore
    /\ r.clvScore = t.clvScore
    /\ r.riskLabel = t.riskLabel
    /\ r.deplatformingRisk = t.deplatformingRisk
    /\ Range(r.providers) = Range(t.providers)
    /\ SameMultiset(r.vendorServices, t.vendorServices)

ComposeWithFunctionsCallDone ==
    /\ pc = "done"
    /\ Len(files) = 1
    /\ ComposeFile(files[1])
    /\ FileSystem[files[1]].providerName # Absent
    /\ FileSystem[files[1]].functions.shape = "list"
    /\ FileSystem[files[1]].functions.n > 0

\* C27: when a YAML file named with `docker-compose` also has provider.name
\* and functions, the compose detection replaces the function service
\* entries (the file's services are only the `docker` entries, then any helm
\* entry), while the file's provider and its 0.2-per-function high-risk
\* increment are still contributed even though the function services were
\* discarded.
C27_ComposeReplacesFunctions ==
    ComposeWithFunctionsCallDone =>
        /\ \A k \in DOMAIN LastResult.vendorServices :
              LastResult.vendorServices[k] \in {"docker", "helm"}
        /\ LastResult.providers = <<FileSystem[files[1]].providerName>>
        /\ acc.highRiskServices = 2 * FunctionEntries(FileSystem[files[1]])

\* C28: whenever exactly one unique provider is detected the result's
\* deplatformingRisk label is HIGH (the two provider-count penalties alone
\* give a score of at least 80), and consequently the freedom score is at
\* most 76; a Low or Moderate label is reachable only with zero or with two
\* or more providers.
C28_SingleProviderIsHighRisk ==
    \A k \in DOMAIN results :
        /\ Len(results[k].providers) = 1 =>
              /\ results[k].deplatformingRiskScore >= 80
              /\ results[k].deplatformingRisk = "HIGH"
              /\ results[k].clvScore <= 76
        /\ results[k].deplatformingRisk \in {"Low", "Moderate"} =>
              Len(results[k].providers) # 1

\* ===================================================================
\* Two analyzeFiles calls in flight at once: each `await fs.readFile` /
\* `await fs.readJson` is a point where the other call may run
\* ===================================================================

\* The calls in flight.
Invocations == {1, 2}

\* The files the concurrent calls are given.
TaskFiles == {"main.tf", "functions.yaml", "mixed.json"}

\* A bug that would keep the five totals at module level: every call
\* working on the same ones.
SharedTotals(t) == 1

\* The five totals are `let` locals of analyzeFiles: every call has its own.
TotalsOf(t) == t

InterleavedInit ==
    /\ AnalyzerIdle
    /\ parser = ParserIdle
    /\ scan = ScanIdle
    /\ \E lists \in [Invocations -> SeqsUpTo(TaskFiles, MaxFiles)] :
          tasks = [ calls |-> [t \in Invocations |->
                                 [ files |-> lists[t], pc |-> "idle", i |-> 0,
                                   overlapped |-> FALSE, results |-> <<>> ]],
                    totals |-> [t \in Invocations |-> EmptyAccumulator] ]

\* Another call has started and has not returned.
OtherInFlight(t) ==
    \E u \in Invocations \ {t} : tasks.calls[u].pc \in {"loop", "awaiting"}

\* analyzeFiles is called: its totals are created.
Begin(t) ==
    /\ tasks.calls[t].pc = "idle"
    /\ tasks' = [tasks EXCEPT !.calls[t].pc = "loop",
                              !.totals[TotalsOf(t)] = NewAccumulator]
    /\ UNCHANGED <<analyzer, parser, scan>>

\* The loop reaches the read of the next file and the call is suspended.
Await(t) ==
    /\ tasks.calls[t].pc = "loop"
    /\ tasks.calls[t].i < Len(tasks.calls[t].files)
    /\ tasks' = [tasks EXCEPT !.calls[t].pc = "awaiting"]
    /\ UNCHANGED <<analyzer, parser, scan>>

\* The read settles: the rest of the iteration runs without suspension and
\* merges the file's facts into the totals of the call.
Resume(t) ==
    /\ tasks.calls[t].pc = "awaiting"
    /\ LET file == tasks.calls[t].files[tasks.calls[t].i + 1]
           ended == Extract(vendorServices, tasks.totals[TotalsOf(t)], file,
                            FileSystem[file])
       IN  tasks' = [tasks EXCEPT
                       !.calls[t].pc = LoopControl(ended.outcome),
                       !.calls[t].i = @ + 1,
                       !.calls[t].overlapped = @ \/ OtherInFlight(t),
                       !.totals[TotalsOf(t)] = ended.acc]
    /\ UNCHANGED <<analyzer, parser, scan>>

\* The loop is over: the scores are computed from the totals of the call.
Return(t) ==
    /\ tasks.calls[t].pc = "loop"
    /\ tasks.calls[t].i = Len(tasks.calls[t].files)
    /\ tasks' = [tasks EXCEPT
                    !.calls[t].pc = "done",
                    !.calls[t].results =
                        <<ScanResults(vendorServices, tasks.totals[TotalsOf(t)])>>]
    /\ UNCHANGED <<analyzer, parser, scan>>

InterleavedNext ==
    \E t \in Invocations : Begin(t) \/ Await(t) \/ Resume(t) \/ Return(t)

InterleavedSpec == InterleavedInit /\ [][InterleavedNext]_vars

\* What a call has returned.
Returned29(t) == tasks.calls[t].results[1]

\* C29: two analyzeFiles calls whose executions interleave at their file
\* reads each return exactly what the call returns when it runs alone on
\* its own file list, and the vendor catalog is the one that was loaded.
C29_InterleavingIsInvisible ==
    /\ vendorServices = (CHOOSE cat \in Catalogs : TRUE)
    /\ \A t \in Invocations :
          tasks # TasksIdle /\ tasks.calls[t].pc = "done" =>
              Returned29(t) = Analysis(vendorServices, tasks.calls[t].files)

\* Both calls have returned, each resumed while the other was in flight,
\* each found services of its own, and the two results differ.
C29_Witness ==
    /\ tasks # TasksIdle
    /\ \A t \in Invocations :
          /\ tasks.calls[t].pc = "done"
          /\ tasks.calls[t].overlapped
          /\ Len(tasks.calls[t].files) = 2
          /\ Returned29(t).vendorServices # <<>>
    /\ Returned29(1) # Returned29(2)

\* ===================================================================
\* analyzeFiles under different values of process.env.DEBUG
\* ===================================================================

\* Values of process.env.DEBUG: unset, the one the code compares with, and
\* others a user may set.
DebugValues == {Absent, "true", "TRUE", "1"}

\* A file that parses, one the Terraform inner catch skips, one whose read
\* fails into the outer catch, and one the YAML inner catch skips.
DebugFiles == {"main.tf", "invalid.tf", "locked.tf", "broken.yml"}

DebugInit ==
    /\ vendorServices = (CHOOSE cat \in Catalogs : TRUE)
    /\ files \in SeqsUpTo(DebugFiles, MaxFiles)
    /\ pc = "idle"
    /\ calls = 0
    /\ i = 0
    /\ acc = EmptyAccumulator
    /\ handled = <<>>
    /\ results = <<>>
    /\ debug \in DebugValues
    /\ warnings = <<>>
    /\ parser = ParserIdle
    /\ scan = ScanIdle
    /\ tasks = TasksIdle

\* The caller changes process.env.DEBUG before the next call.
SetDebug ==
    /\ pc = "done"
    /\ calls < MaxCalls
    /\ \E value \in DebugValues \ {debug} : debug' = value
    /\ UNCHANGED <<vendorServices, files, pc, calls, i, acc, handled, results, warnings>>
    /\ UNCHANGED aside

DebugNext == StartCall \/ ProcessFile \/ Finish \/ SetDebug

DebugSpec == DebugInit /\ [][DebugNext]_vars

====
